---- MODULE Spec2Model ----
(***************************************************************************)
(* A model of the ETL pipeline of ETL_pipeline.py: the Normalizer          *)
(* (clean_and_normalize_data), the relational store written through        *)
(* insert_cleaned_data (pandas to_sql, if_exists='replace'), the semantic  *)
(* layer builder (create_semantic_layer) and the entry point main.         *)
(*                                                                         *)
(* A Python string is a sequence of one-character strings, so that strip,  *)
(* lower, ', '.join and the ordering of strings are computed, not assumed. *)
(* A cell of a data frame is a tagged record: a string, a number or NA     *)
(* (pandas None/NaN, SQL NULL).  A data frame is its set of column names   *)
(* and its sequence of rows; a row is a function from column name to cell. *)
(***************************************************************************)
EXTENDS Integers, Sequences, FiniteSets, TLC

VARIABLES
    pc,      \* the position of the running caller (main, or a direct caller)
    raw,     \* main's locals uniprot_df, string_df, opentargets_df
    clean,   \* main's locals clean_uniprot_df, clean_string_df, clean_opentargets_df
    store,   \* the SQLite database behind conn: table name -> table
    error,   \* the exception that ended the caller, "none" while there is none
    builds,  \* calls of create_semantic_layer made on the tables as they are stored
    runs     \* pipeline runs started on this database

vars == <<pc, raw, clean, store, error, builds, runs>>

----------------------------------------------------------------------------
(* Cells and strings *)

Str(s) == [k |-> "str", s |-> s, n |-> 0]
Num(n) == [k |-> "num", s |-> <<>>, n |-> n]
NA == [k |-> "na", s |-> <<>>, n |-> 0]

IsStr(x) == x.k = "str"
IsNA(x) == x.k = "na"

\* The characters str.strip() removes, among those the model uses.
Whitespace == {" ", "\t", "\n"}

\* str.lower() on the letters the model uses; every other character is kept.
LowerOf ==
    ("A" :> "a") @@ ("B" :> "b") @@ ("D" :> "d") @@ ("G" :> "g") @@ ("H" :> "h")
    @@ ("N" :> "n") @@ ("O" :> "o") @@ ("P" :> "p") @@ ("S" :> "s")

LowerChar(c) == IF c \in DOMAIN LowerOf THEN LowerOf[c] ELSE c

Lower(s) == [i \in 1..Len(s) |-> LowerChar(s[i])]

RECURSIVE LStrip(_)
LStrip(s) == IF s # <<>> /\ Head(s) \in Whitespace THEN LStrip(Tail(s)) ELSE s

RECURSIVE RStrip(_)
RStrip(s) ==
    IF s # <<>> /\ s[Len(s)] \in Whitespace THEN RStrip(SubSeq(s, 1, Len(s) - 1)) ELSE s

Strip(s) == RStrip(LStrip(s))

\* sep.join(parts)
RECURSIVE Join(_, _)
Join(parts, sep) ==
    IF parts = <<>> THEN <<>>
    ELSE IF Len(parts) = 1 THEN parts[1]
    ELSE parts[1] \o sep \o Join(Tail(parts), sep)

CommaSpace == <<",", " ">>

\* Python orders strings by code point.
CodePoint(c) ==
    CASE c = "\t" -> 9 [] c = "\n" -> 10 [] c = " " -> 32 [] c = "," -> 44
      [] c = "1" -> 49 [] c = "2" -> 50 [] c = "3" -> 51
      [] c = "A" -> 65 [] c = "B" -> 66 [] c = "D" -> 68 [] c = "G" -> 71
      [] c = "H" -> 72 [] c = "N" -> 78 [] c = "O" -> 79 [] c = "P" -> 80
      [] c = "S" -> 83
      [] c = "a" -> 97 [] c = "b" -> 98 [] c = "d" -> 100 [] c = "g" -> 103
      [] c = "h" -> 104 [] c = "n" -> 110 [] c = "o" -> 111 [] c = "p" -> 112
      [] c = "s" -> 115

RECURSIVE StrLess(_, _)
StrLess(a, b) ==
    IF b = <<>> THEN FALSE
    ELSE IF a = <<>> THEN TRUE
    ELSE IF Head(a) = Head(b) THEN StrLess(Tail(a), Tail(b))
    ELSE CodePoint(Head(a)) < CodePoint(Head(b))

----------------------------------------------------------------------------
(* Data frames *)

Frame(cols, rows) == [cols |-> cols, rows |-> rows]

\* The first-seen distinct elements of a sequence (pandas unique, drop_duplicates).
RECURSIVE Unique(_)
Unique(seq) ==
    IF seq = <<>> THEN <<>>
    ELSE LET init == Unique(SubSeq(seq, 1, Len(seq) - 1))
             last == seq[Len(seq)]
         IN IF \E i \in 1..Len(init) : init[i] = last THEN init ELSE Append(init, last)

\* DataFrame.dropna(): a row with NA in any column goes.
RowComplete(r) == \A c \in DOMAIN r : ~IsNA(r[c])

DropNA(rows) == SelectSeq(rows, RowComplete)

\* DataFrame.drop_duplicates(): the first of the rows equal in every column stays.
DropDuplicates(rows) == Unique(rows)

\* lambda x: x.strip().lower() if isinstance(x, str) else x
CleanCellNoStrip(x) == IF IsStr(x) THEN Str(Lower(x.s)) ELSE x

CleanCell(x) == IF IsStr(x) THEN Str(Lower(Strip(x.s))) ELSE x

ApplyMap(rows) == [i \in 1..Len(rows) |-> [c \in DOMAIN rows[i] |-> CleanCell(rows[i][c])]]

\* clean_and_normalize_data: dropna, then drop_duplicates, then applymap.
CleanAndNormalizeData(df) == Frame(df.cols, ApplyMap(DropDuplicates(DropNA(df.rows))))

----------------------------------------------------------------------------
(* The relational store *)

TableNames == {"clean_uniprot", "clean_string", "clean_targets", "semantic_layer"}

\* The column names of create_clean_data_tables.
UniprotColumns ==
    {"primary_accession", "recommended_protein_name", "primary_gene_name",
     "species_common_name", "string_dbReference", "opentargets_dbReference",
     "sequence_length", "sequence_mass"}

StringColumns == {"protein1", "protein2", "combined_score"}

OpentargetsColumns == {"id", "approvedSymbol", "biotype"}

SemanticColumns ==
    {"primary_accession", "recommended_protein_name", "primary_gene_name",
     "species_common_name", "disease", "associated_proteins"}

\* The keys of the records fetch_uniprot_data appends: the columns of its frame.
UniprotFetchColumns ==
    {"Primary Accession", "Recommended Protein Name", "Species Common Name",
     "STRING dbReference", "OpenTargets dbReference", "Sequence Length",
     "Sequence Mass"}

NoTable == [exists |-> FALSE, cols |-> {}, rows |-> <<>>]

\* sqlite3.connect on a database that holds no table yet.
EmptyStore == [t \in TableNames |-> NoTable]

\* CREATE TABLE IF NOT EXISTS
CreateTableIfNotExists(st, table_name, columns) ==
    IF st[table_name].exists THEN st
    ELSE [st EXCEPT ![table_name] = [exists |-> TRUE, cols |-> columns, rows |-> <<>>]]

CreateCleanDataTables(st) ==
    CreateTableIfNotExists(
        CreateTableIfNotExists(
            CreateTableIfNotExists(
                CreateTableIfNotExists(st, "clean_uniprot", UniprotColumns),
                "clean_string", StringColumns),
            "clean_targets", OpentargetsColumns),
        "semantic_layer", SemanticColumns)

\* df.to_sql(table_name, conn, if_exists='append', index=False)
ToSqlAppend(old, df) ==
    [exists |-> TRUE, cols |-> df.cols, rows |-> old.rows \o df.rows]

\* df.to_sql(table_name, conn, if_exists='replace', index=False): the table is
\* dropped and created again from the frame's own columns and rows.
ToSql(old, df) == [exists |-> TRUE, cols |-> df.cols, rows |-> df.rows]

InsertCleanedData(st, df, table_name) == [st EXCEPT ![table_name] = ToSql(@, df)]

\* pd.read_sql('SELECT * FROM <table_name>', conn)
ReadSql(st, table_name) == Frame(st[table_name].cols, st[table_name].rows)

----------------------------------------------------------------------------
(* The semantic layer builder *)

\* The confidence threshold of string_df['combined_score'] > 200.
ScoreThreshold == 200

\* The boolean mask with >= in place of >.
ScoreQualifiesInclusive(r) ==
    r["combined_score"].k = "num" /\ r["combined_score"].n >= ScoreThreshold

\* string_df['combined_score'] > 200 (NaN > 200 is False).
ScoreQualifies(r) ==
    r["combined_score"].k = "num" /\ r["combined_score"].n > ScoreThreshold

FilterScore(df) == Frame(df.cols, SelectSeq(df.rows, ScoreQualifies))

RECURSIVE Flatten(_)
Flatten(seqs) == IF seqs = <<>> THEN <<>> ELSE Head(seqs) \o Flatten(Tail(seqs))

\* The right rows whose key equals the left row's, in the right frame's order.
\* pandas matches equal keys whatever they are: '' with '', and NA with NA.
Matches(l, right, left_on, right_on) ==
    SelectSeq(right.rows, LAMBDA r : r[right_on] = l[left_on])

\* left.merge(right, left_on=, right_on=, how='inner')
MergeInner(left, right, left_on, right_on) ==
    LET RowsFor(l) ==
            LET m == Matches(l, right, left_on, right_on)
            IN [i \in 1..Len(m) |-> l @@ m[i]]
    IN Frame(left.cols \cup right.cols,
             Flatten([i \in 1..Len(left.rows) |-> RowsFor(left.rows[i])]))

\* left.merge(right, left_on=, right_on=, how='left'): every left row is kept, in
\* order; one without a match carries NA in the right frame's columns.
MergeLeft(left, right, left_on, right_on) ==
    LET RowsFor(l) ==
            LET m == Matches(l, right, left_on, right_on)
            IN IF m = <<>> THEN << l @@ [c \in right.cols |-> NA] >>
               ELSE [i \in 1..Len(m) |-> l @@ m[i]]
    IN Frame(left.cols \cup right.cols,
             Flatten([i \in 1..Len(left.rows) |-> RowsFor(left.rows[i])]))

GroupKeys ==
    <<"primary_accession", "recommended_protein_name", "primary_gene_name",
      "species_common_name">>

KeyOf(r) == [i \in 1..Len(GroupKeys) |-> r[GroupKeys[i]]]

CellLess(a, b) == IF IsStr(a) /\ IsStr(b) THEN StrLess(a.s, b.s) ELSE a.n < b.n

RECURSIVE KeyLess(_, _)
KeyLess(a, b) ==
    IF a = <<>> THEN FALSE
    ELSE IF Head(a) = Head(b) THEN KeyLess(Tail(a), Tail(b))
    ELSE CellLess(Head(a), Head(b))

\* groupby(...) with its defaults sort=True, dropna=True: the distinct keys of the
\* rows that hold no NA in a key, in ascending order.
RECURSIVE SortKeys(_)
SortKeys(S) ==
    IF S = {} THEN <<>>
    ELSE LET least == CHOOSE k \in S : \A j \in S \ {k} : KeyLess(k, j)
         IN <<least>> \o SortKeys(S \ {least})

GroupedKeys(rows) ==
    SortKeys({KeyOf(rows[i]) : i \in {j \in 1..Len(rows) :
                                    \A c \in 1..Len(GroupKeys) : ~IsNA(rows[j][GroupKeys[c]])}})

GroupRows(rows, key) == SelectSeq(rows, LAMBDA r : KeyOf(r) = key)

Column(rows, c) == [i \in 1..Len(rows) |-> rows[i][c]]

\* lambda x: ', '.join(x.dropna()), every value as often as the joins repeat it
AggregateNoUnique(x) ==
    LET vals == SelectSeq(x, LAMBDA v : ~IsNA(v))
    IN Str(Join([i \in 1..Len(vals) |-> vals[i].s], CommaSpace))

\* lambda x: ', '.join(x.dropna().unique())
Aggregate(x) ==
    LET vals == Unique(SelectSeq(x, LAMBDA v : ~IsNA(v)))
    IN Str(Join([i \in 1..Len(vals) |-> vals[i].s], CommaSpace))

\* .groupby(...).agg(disease=..., associated_proteins=...).reset_index()
GroupByAgg(df) ==
    LET keys == GroupedKeys(df.rows)
        RowOf(key) ==
            LET g == GroupRows(df.rows, key)
            IN [c \in SemanticColumns |->
                   IF c = "disease" THEN Aggregate(Column(g, "approvedSymbol"))
                   ELSE IF c = "associated_proteins" THEN Aggregate(Column(g, "protein2"))
                   ELSE g[1][c]]
    IN Frame(SemanticColumns, [i \in 1..Len(keys) |-> RowOf(keys[i])])

\* The chained expression of create_semantic_layer, on the three frames read.
SemanticLayerDf(uniprot_df, string_df, opentargets_df) ==
    GroupByAgg(
        MergeLeft(
            MergeLeft(uniprot_df, FilterScore(string_df), "string_dbReference", "protein1"),
            opentargets_df, "opentargets_dbReference", "id"))

\* The columns the chained expression looks up in each frame (a KeyError otherwise).
UniprotNeeded ==
    {"primary_accession", "recommended_protein_name", "primary_gene_name",
     "species_common_name", "string_dbReference", "opentargets_dbReference"}

StringNeeded == {"protein1", "protein2", "combined_score"}

OpentargetsNeeded == {"id", "approvedSymbol"}

\* create_semantic_layer(conn): the store it leaves and the exception it raises.
CreateSemanticLayerResult(st) ==
    IF \E t \in {"clean_uniprot", "clean_string", "clean_targets"} : ~st[t].exists
    THEN [store |-> st, error |-> "DatabaseError"]
    ELSE LET uniprot_df == ReadSql(st, "clean_uniprot")
             string_df == ReadSql(st, "clean_string")
             opentargets_df == ReadSql(st, "clean_targets")
         IN IF /\ UniprotNeeded \subseteq uniprot_df.cols
               /\ StringNeeded \subseteq string_df.cols
               /\ OpentargetsNeeded \subseteq opentargets_df.cols
            THEN [store |-> InsertCleanedData(
                                st,
                                SemanticLayerDf(uniprot_df, string_df, opentargets_df),
                                "semantic_layer"),
                  error |-> "none"]
            ELSE [store |-> st, error |-> "KeyError"]

----------------------------------------------------------------------------
(* Bounds and the values the inputs are drawn from *)

MaxRows == 4        \* rows of the three stored tables handed to the builder, together
MaxBuilds == 2      \* calls of create_semantic_layer on unchanged tables
MaxRuns == 2        \* pipeline runs on one database
MaxRunRows == 1     \* rows of each frame of a run, where runs follow each other
MaxRawRows == 2     \* rows of the STRING frame main fetches
MaxFetchRows == 1   \* rows of the UniProt and OpenTargets frames main fetches

SeqsUpTo(S, n) == UNION {[1..k -> S] : k \in 0..n}

Empty == <<>>
P1 == <<"p", "1">>
P2 == <<"p", "2">>
S1 == <<"s", "1">>
S2 == <<"s", "2">>
S3 == <<"s", "3">>
O1 == <<"o", "1">>
D1 == <<"d", "1">>
D2 == <<"d", "2">>

\* A row of clean_uniprot, of clean_string, of clean_targets.
UniprotRow(acc, sref, oref) ==
    [primary_accession |-> Str(acc), recommended_protein_name |-> Str(<<"n">>),
     primary_gene_name |-> Str(<<"g">>), species_common_name |-> Str(<<"h">>),
     string_dbReference |-> Str(sref), opentargets_dbReference |-> Str(oref),
     sequence_length |-> Str(<<"1">>), sequence_mass |-> Str(<<"2">>)]

EdgeRow(p1, p2, score) == [protein1 |-> p1, protein2 |-> p2, combined_score |-> score]

TargetRow(id, symbol) == [id |-> id, approvedSymbol |-> symbol, biotype |-> Str(<<"b">>)]

\* Normalized rows: no NA, every string stripped and lowercased.  A reference, a
\* partner or a symbol may be the empty string.
ProteinRows ==
    {UniprotRow(acc, ref[1], ref[2]) : acc \in {P1, P2}, ref \in {<<Empty, Empty>>, <<S1, O1>>}}

EdgeRows ==
    {EdgeRow(Str(p1), Str(p2), Num(score)) :
        p1 \in {Empty, S1}, p2 \in {Empty, S2, S3}, score \in {ScoreThreshold, 900}}

TargetRows == {TargetRow(Str(id), Str(symbol)) : id \in {Empty, O1}, symbol \in {Empty, D1, D2}}

NoFrame == Frame({}, <<>>)

NoFrames == [uniprot |-> NoFrame, string |-> NoFrame, targets |-> NoFrame]

\* Three frames with the columns of create_clean_data_tables.
FramesOf(u, s, t) ==
    [uniprot |-> Frame(UniprotColumns, u), string |-> Frame(StringColumns, s),
     targets |-> Frame(OpentargetsColumns, t)]

Frames(U, S, T) == {FramesOf(u, s, t) : u \in U, s \in S, t \in T}

\* The numbers of rows of three tables that hold n rows at most, together.
RowCounts(n) == {y \in (0..n) \X (0..n) \X (0..n) : y[1] + y[2] + y[3] <= n}

\* The normalized frames of a run, where runs follow each other.
RunFrames(n) ==
    Frames(SeqsUpTo({UniprotRow(P1, S1, O1), UniprotRow(P2, Empty, Empty)}, n),
           SeqsUpTo({EdgeRow(Str(S1), Str(S2), Num(900)),
                     EdgeRow(Str(S1), Str(S3), Num(900))}, n),
           SeqsUpTo({TargetRow(Str(O1), Str(D1)), TargetRow(Str(O1), Str(D2))}, n))

\* A record fetch_uniprot_data appends.
FetchedRow(acc, sref, oref) ==
    [c \in UniprotFetchColumns |->
        IF c = "Primary Accession" THEN Str(acc)
        ELSE IF c = "Recommended Protein Name" THEN Str(<<"N">>)
        ELSE IF c = "Species Common Name" THEN Str(<<"H">>)
        ELSE IF c = "STRING dbReference" THEN Str(sref)
        ELSE IF c = "OpenTargets dbReference" THEN Str(oref)
        ELSE IF c = "Sequence Length" THEN Str(<<"1">>)
        ELSE Str(<<"2">>)]

\* What fetch_string_data hands main: strings as the source spells them, NA where
\* read_csv found nothing.
RawEdgeRows ==
    {EdgeRow(p1, p2, score) :
        p1 \in {NA, Str(S1), Str(<<" ">> \o <<"S", "1">> \o <<" ">>)},
        p2 \in {Str(S2), Str(<<" ">>)},
        score \in {NA, Num(900)}}

\* The three frames the source readers hand main.  The UniProt frame holds a
\* record at least: pd.DataFrame of no record has no column at all.
RawFrames(n, m) ==
    {[uniprot |-> Frame(UniprotFetchColumns, u), string |-> Frame(StringColumns, s),
      targets |-> Frame(OpentargetsColumns, t)] :
        u \in SeqsUpTo({FetchedRow(<<"P", "1">>, <<"S", "1">>, <<"O", "1">>),
                        FetchedRow(<<"P", "2">>, Empty, Empty)}, m) \ {<<>>},
        s \in SeqsUpTo(RawEdgeRows, n),
        t \in SeqsUpTo({TargetRow(Str(<<"O", "1">>), Str(<<"D", "1">>)),
                        TargetRow(Str(O1), NA)}, m)}

----------------------------------------------------------------------------
(* The steps of main *)

\* fetch_uniprot_data(), fetch_string_data(), fetch_opentargets_data()
FetchData ==
    /\ pc = "fetch"
    /\ raw' \in RawFrames(MaxRawRows, MaxFetchRows)
    /\ runs' = runs + 1
    /\ pc' = "clean"
    /\ UNCHANGED <<clean, store, error, builds>>

\* The three calls of clean_and_normalize_data.
CleanData ==
    /\ pc = "clean"
    /\ clean' = [uniprot |-> CleanAndNormalizeData(raw.uniprot),
                 string |-> CleanAndNormalizeData(raw.string),
                 targets |-> CleanAndNormalizeData(raw.targets)]
    /\ pc' = "create_tables"
    /\ UNCHANGED <<raw, store, error, builds, runs>>

\* create_clean_data_tables(conn)
CreateTables ==
    /\ pc = "create_tables"
    /\ store' = CreateCleanDataTables(store)
    /\ pc' = "insert_uniprot"
    /\ UNCHANGED <<raw, clean, error, builds, runs>>

\* insert_cleaned_data(clean_uniprot_df, 'clean_uniprot', conn)
InsertUniprot ==
    /\ pc = "insert_uniprot"
    /\ store' = InsertCleanedData(store, clean.uniprot, "clean_uniprot")
    /\ builds' = 0
    /\ pc' = "insert_string"
    /\ UNCHANGED <<raw, clean, error, runs>>

\* insert_cleaned_data(clean_string_df, 'clean_string', conn)
InsertString ==
    /\ pc = "insert_string"
    /\ store' = InsertCleanedData(store, clean.string, "clean_string")
    /\ builds' = 0
    /\ pc' = "insert_targets"
    /\ UNCHANGED <<raw, clean, error, runs>>

\* insert_cleaned_data(clean_opentargets_df, 'clean_targets', conn)
InsertTargets ==
    /\ pc = "insert_targets"
    /\ store' = InsertCleanedData(store, clean.targets, "clean_targets")
    /\ builds' = 0
    /\ pc' = "semantic"
    /\ UNCHANGED <<raw, clean, error, runs>>

\* create_semantic_layer(conn), then conn.close(); an exception ends main.
CreateSemanticLayer ==
    /\ pc = "semantic"
    /\ LET r == CreateSemanticLayerResult(store)
       IN /\ store' = r.store
          /\ error' = r.error
          /\ pc' = IF r.error = "none" THEN "done" ELSE "crashed"
    /\ builds' = builds + 1
    /\ UNCHANGED <<raw, clean, runs>>

InitMain ==
    /\ pc = "fetch"
    /\ raw = NoFrames
    /\ clean = NoFrames
    /\ store = EmptyStore
    /\ error = "none"
    /\ builds = 0
    /\ runs = 0

NextMain ==
    \/ FetchData
    \/ CleanData
    \/ CreateTables
    \/ InsertUniprot
    \/ InsertString
    \/ InsertTargets
    \/ CreateSemanticLayer

\* main, as written, on a database that holds no table yet.
SpecMain == InitMain /\ [][NextMain]_vars

----------------------------------------------------------------------------
(* Pipeline runs on frames that carry the columns of create_clean_data_tables *)

\* A run starts with the readers and the Normalizer having handed over three
\* normalized frames; the database is the one the run before left.
StartRun ==
    /\ pc \in {"start", "done"}
    /\ runs < MaxRuns
    /\ clean' \in RunFrames(MaxRunRows)
    /\ runs' = runs + 1
    /\ pc' = "create_tables"
    /\ UNCHANGED <<raw, store, error, builds>>

InitRuns ==
    /\ pc = "start"
    /\ raw = NoFrames
    /\ clean = NoFrames
    /\ store = EmptyStore
    /\ error = "none"
    /\ builds = 0
    /\ runs = 0

\* create_semantic_layer(conn) called once more on the tables as the run left them.
RepeatCreateSemanticLayer ==
    /\ pc = "done"
    /\ builds < MaxBuilds
    /\ LET r == CreateSemanticLayerResult(store)
       IN /\ store' = r.store
          /\ error' = r.error
    /\ builds' = builds + 1
    /\ UNCHANGED <<pc, raw, clean, runs>>

NextRuns ==
    \/ StartRun
    \/ RepeatCreateSemanticLayer
    \/ CreateTables
    \/ InsertUniprot
    \/ InsertString
    \/ InsertTargets
    \/ CreateSemanticLayer

SpecRuns == InitRuns /\ [][NextRuns]_vars

----------------------------------------------------------------------------
(* The builder called on stored tables, as test_create_semantic_layer calls it *)

\* The three tables written with to_sql into a database that held none.
StoreOf(f) ==
    [EmptyStore EXCEPT !["clean_uniprot"] = ToSql(@, f.uniprot),
                       !["clean_string"] = ToSql(@, f.string),
                       !["clean_targets"] = ToSql(@, f.targets)]

\* create_semantic_layer(conn)
CallCreateSemanticLayer ==
    /\ pc = "call"
    /\ LET r == CreateSemanticLayerResult(store)
       IN /\ store' = r.store
          /\ error' = r.error
    /\ builds' = builds + 1
    /\ pc' = "called"
    /\ UNCHANGED <<raw, clean, runs>>

Init ==
    /\ pc = "call"
    /\ raw = NoFrames
    /\ clean = NoFrames
    /\ \E x \in RowCounts(MaxRows) :
          \E u \in [1..x[1] -> ProteinRows], s \in [1..x[2] -> EdgeRows],
             t \in [1..x[3] -> TargetRows] :
              store = StoreOf(FramesOf(u, s, t))
    /\ error = "none"
    /\ builds = 0
    /\ runs = 0

Next == CallCreateSemanticLayer

Spec == Init /\ [][Next]_vars

----------------------------------------------------------------------------
(* What the claims speak of *)

Layer == store["semantic_layer"].rows
Proteins == store["clean_uniprot"].rows
Edges == store["clean_string"].rows
Targets == store["clean_targets"].rows

SeqRange(s) == {s[i] : i \in 1..Len(s)}

\* The values of a sequence in the order they are first seen.
FirstSeen(seq) ==
    LET idx == SelectSeq([i \in 1..Len(seq) |-> i],
                         LAMBDA i : \A j \in 1..(i - 1) : seq[j] # seq[i])
    IN [k \in 1..Len(idx) |-> seq[idx[k]]]

\* The entries of a list rendered with ", " between them; the empty string
\* renders the list without entries.
RECURSIVE SplitCommaSpace(_, _)
SplitCommaSpace(s, cur) ==
    IF s = <<>> THEN <<cur>>
    ELSE IF Len(s) >= 2 /\ s[1] = "," /\ s[2] = " "
         THEN <<cur>> \o SplitCommaSpace(SubSeq(s, 3, Len(s)), <<>>)
         ELSE SplitCommaSpace(Tail(s), Append(cur, Head(s)))

Entries(field) == IF field.s = <<>> THEN <<>> ELSE SplitCommaSpace(field.s, <<>>)

\* The builder has run on the stored tables and raised nothing.
Built == pc = "called" /\ error = "none"

\* The proteins of clean_uniprot grouped into a row of the semantic layer.
GroupOf(row) ==
    SelectSeq(Proteins, LAMBDA p : \A i \in 1..Len(GroupKeys) : p[GroupKeys[i]] = row[GroupKeys[i]])

HighEdgeFor(e, row) ==
    /\ e["combined_score"].n > 200
    /\ \E p \in SeqRange(GroupOf(row)) : e["protein1"] = p["string_dbReference"]

\* C1: the partner of an edge with combined_score <= 200 is an entry of a row's
\* associated_proteins only if an edge with combined_score > 200, whose protein1 is
\* the string_dbReference of a protein of the row's group, has that partner too.
C1_LowScoreEdgeExcluded ==
    Built =>
        \A row \in SeqRange(Layer) : \A e \in SeqRange(Edges) :
            (e["combined_score"].n <= 200
             /\ e["protein2"].s \in SeqRange(Entries(row["associated_proteins"])))
            => \E f \in SeqRange(Edges) : HighEdgeFor(f, row) /\ f["protein2"] = e["protein2"]

\* An edge scored exactly 200 joins a protein and is left out, next to one that
\* qualifies and is listed.
C1_Witness ==
    /\ Built
    /\ \E row \in SeqRange(Layer) : \E e, f \in SeqRange(Edges) :
           /\ e["combined_score"].n = 200
           /\ \E p \in SeqRange(GroupOf(row)) : e["protein1"] = p["string_dbReference"]
           /\ e["protein2"].s \notin SeqRange(Entries(row["associated_proteins"]))
           /\ HighEdgeFor(f, row)
           /\ f["protein2"].s \in SeqRange(Entries(row["associated_proteins"]))

\* C2: a protein whose string_dbReference and opentargets_dbReference are both the
\* empty string gets disease = "" and associated_proteins = "", whatever clean_string
\* and clean_targets hold (stated for the groups all of whose proteins are such).
C2_EmptyKeysMatchNothing ==
    Built =>
        \A row \in SeqRange(Layer) :
            (\A p \in SeqRange(GroupOf(row)) :
                 p["string_dbReference"] = Str(Empty) /\ p["opentargets_dbReference"] = Str(Empty))
            => row["disease"] = Str(Empty) /\ row["associated_proteins"] = Str(Empty)

NoDuplicates(seq) == \A i, j \in 1..Len(seq) : seq[i] = seq[j] => i = j

\* C3: in every row of the semantic layer the lists disease and associated_proteins
\* hold no empty-string entry and no entry twice, and both fields are strings (the
\* empty string where nothing matched), never NA.
C3_NoEmptyNoDuplicateEntries ==
    Built =>
        \A row \in SeqRange(Layer) : \A c \in {"disease", "associated_proteins"} :
            /\ IsStr(row[c])
            /\ Empty \notin SeqRange(Entries(row[c]))
            /\ NoDuplicates(Entries(row[c]))

SymbolsFor(row) ==
    LET g == GroupOf(row)
    IN Flatten([i \in 1..Len(g) |->
           LET m == SelectSeq(Targets, LAMBDA t : t["id"] = g[i]["opentargets_dbReference"])
           IN [k \in 1..Len(m) |-> m[k]["approvedSymbol"].s]])

PartnersFor(row) ==
    LET g == GroupOf(row)
    IN Flatten([i \in 1..Len(g) |->
           LET m == SelectSeq(Edges, LAMBDA e : /\ e["combined_score"].n > 200
                                                /\ e["protein1"] = g[i]["string_dbReference"])
           IN [k \in 1..Len(m) |-> m[k]["protein2"].s]])

\* C5: disease is the distinct approvedSymbol values of the targets whose id is the
\* opentargets_dbReference of a protein of the group, associated_proteins the
\* distinct protein2 values of the edges with combined_score > 200 whose protein1
\* is the string_dbReference of a protein of the group, each in first-seen order
\* and joined with ", ": the fan-out of the joins drops, adds and repeats nothing.
C5_AggregatesExact ==
    Built =>
        \A row \in SeqRange(Layer) :
            /\ row["disease"] = Str(Join(FirstSeen(SymbolsFor(row)), <<",", " ">>))
            /\ row["associated_proteins"] = Str(Join(FirstSeen(PartnersFor(row)), <<",", " ">>))

\* One protein, two qualifying edges with different partners, one target: the
\* joins repeat the target's symbol in two rows.
C5_Witness ==
    /\ Built
    /\ \E row \in SeqRange(Layer) :
           /\ Len(FirstSeen(PartnersFor(row))) = 2
           /\ Len(SymbolsFor(row)) = 1
           /\ Empty \notin SeqRange(PartnersFor(row)) \cup SeqRange(SymbolsFor(row))

----------------------------------------------------------------------------
(* The Normalizer, on the frames main hands it *)

Cleaned == pc \notin {"fetch", "clean"}

Uppercase == {"A", "B", "D", "G", "H", "N", "O", "P", "S"}

IsTrimmed(s) == s = <<>> \/ (s[1] \notin Whitespace /\ s[Len(s)] \notin Whitespace)

IsLowercase(s) == \A i \in 1..Len(s) : s[i] \notin Uppercase

\* The input rows that hold no NA and equal no earlier row, by index.
KeptRows(rows) ==
    SelectSeq([i \in 1..Len(rows) |-> i],
              LAMBDA i : /\ \A c \in DOMAIN rows[i] : rows[i][c] # NA
                         /\ \A j \in 1..(i - 1) : rows[j] # rows[i])

NormalizedFrom(in, out) ==
    LET kept == KeptRows(in.rows)
    IN /\ out.cols = in.cols
       /\ Len(out.rows) = Len(kept)
       /\ \A k \in 1..Len(out.rows) : \A c \in DOMAIN out.rows[k] :
              LET x == in.rows[kept[k]][c]
                  y == out.rows[k][c]
              IN IF x.k = "str"
                 THEN y.k = "str" /\ IsTrimmed(y.s) /\ IsLowercase(y.s)
                 ELSE y = x

\* C6: of clean_and_normalize_data's input, a row with a missing value in any field
\* leaves no output row, rows equal in all fields leave one output row between
\* them, every string field of the output is stripped of surrounding whitespace
\* and lowercased, and every other field is passed through unchanged.
C6_NormalizerContract ==
    Cleaned =>
        /\ NormalizedFrom(raw.uniprot, clean.uniprot)
        /\ NormalizedFrom(raw.string, clean.string)
        /\ NormalizedFrom(raw.targets, clean.targets)

\* Two equal rows with a padded upper-case string: one row comes out, stripped and
\* lowercased, its score untouched; and a row missing a symbol is gone.
C6_Witness ==
    /\ Cleaned
    /\ Len(raw.string.rows) = 2
    /\ raw.string.rows[1] = raw.string.rows[2]
    /\ raw.string.rows[1]["protein1"] = Str(<<" ", "S", "1", " ">>)
    /\ clean.string.rows = <<EdgeRow(Str(S1), Str(S2), Num(900))>>
    /\ Len(raw.targets.rows) = 1
    /\ clean.targets.rows = <<>>

\* C10: the output of clean_and_normalize_data holds no two rows equal in all
\* fields, and cleaning the output again returns it unchanged.
C10_OutputDuplicateFree ==
    Cleaned =>
        \A df \in {clean.uniprot, clean.string, clean.targets} :
            /\ NoDuplicates(df.rows)
            /\ CleanAndNormalizeData(df) = df

----------------------------------------------------------------------------
(* Runs and repeated builds *)

BagOfRows(rows) == [r \in SeqRange(rows) |-> Cardinality({i \in 1..Len(rows) : rows[i] = r})]

\* C7: create_semantic_layer run again on unchanged clean tables leaves the
\* semantic layer with the same rows, as often, as the run before left.
C7_BuildIdempotent ==
    [][(builds >= 1 /\ builds' = builds + 1)
        => BagOfRows(store'["semantic_layer"].rows) = BagOfRows(store["semantic_layer"].rows)]_vars

\* The builder has run twice on the tables of a run that lists a partner.
C7_Witness ==
    /\ pc = "done"
    /\ builds = 2
    /\ \E row \in SeqRange(Layer) : row["associated_proteins"] # Str(Empty)

\* C8: every write through insert_cleaned_data replaces the table: from its write
\* on, each clean table holds exactly the rows of the frame this run wrote, and at
\* the end of the run the semantic layer holds exactly the rows this run derived.
C8_TablesReplaced ==
    /\ pc \in {"insert_string", "insert_targets", "semantic", "done"}
           => Proteins = clean.uniprot.rows
    /\ pc \in {"insert_targets", "semantic", "done"} => Edges = clean.string.rows
    /\ pc \in {"semantic", "done"} => Targets = clean.targets.rows
    /\ pc = "done"
           => Layer = SemanticLayerDf(clean.uniprot, clean.string, clean.targets).rows

\* The second run has written p2 alone to clean_uniprot; the semantic layer, not
\* yet rebuilt, still shows the p1 the first run had stored there.
C8_Witness ==
    /\ runs = 2
    /\ pc = "insert_string"
    /\ Proteins = <<UniprotRow(P2, Empty, Empty)>>
    /\ \E row \in SeqRange(Layer) : row["primary_accession"] = Str(P1)

\* C9: main runs to completion without a failure and leaves the four tables, the
\* semantic layer holding the rows derived from the clean tables of the run.
C9_MainCompletes ==
    /\ pc # "crashed"
    /\ pc = "done"
           => /\ \A t \in TableNames : store[t].exists
              /\ Layer = SemanticLayerDf(clean.uniprot, clean.string, clean.targets).rows

====
